---- MODULE Spec2Model ----
(***************************************************************************)
(* Model of the Q&A platform's request handlers (routes/auth.py,           *)
(* routes/question.py, routes/answer.py) and of the notification fan-out   *)
(* and @mention pipeline (routes/notification.py).                         *)
(*                                                                         *)
(* State: the users, questions, answers and notifications collections.    *)
(* Texts are sequences of characters; one text (payload) is fixed per      *)
(* behaviour and is what the clients post in that behaviour.  The fields   *)
(* of the stored documents that no modelled handler reads (content,        *)
(* created_at, toxic_score, ai_generated, message) are left out of the     *)
(* documents.  The variable last records the latest request, its inputs    *)
(* and its response; limits holds the number of documents a behaviour      *)
(* creates and stores, the spellings of the ids and the spread of the tag  *)
(* lists it posts.  The insert of a notification either stores the         *)
(* document or raises.                                                     *)
(*                                                                         *)
(* Requests served one at a time, every handler one action:                *)
(*   Spec         the handlers on plain text;                              *)
(*   SpecFanout   the same handlers, the posted text drawn from Texts;     *)
(*   SpecSpelling the same handlers, ids spelt in lower or upper case;     *)
(*   SpecVote     questions, answers and vote_answer;                      *)
(*   SpecTags     create_question, the tag lists drawn from runs of words; *)
(*   SpecAuth     register and login.                                      *)
(* Requests in flight together (inflight), every database call one action: *)
(*   SpecVoteRace, SpecAcceptRace, SpecDeleteRace, SpecRegisterRace.       *)
(***************************************************************************)
EXTENDS Integers, Sequences, FiniteSets

VARIABLES users, questions, answers, notifications, nextQ, nextA, payload, limits, last,
          inflight

vars == <<users, questions, answers, notifications, nextQ, nextA, payload, limits, last,
          inflight>>

(* ------------------------------ bounds -------------------------------- *)

\* longest posted text
MaxLen == 4
\* questions and answers created in one behaviour of Spec
MaxQuestions == 1
MaxAnswers == 2
\* questions and answers created in one behaviour of SpecFanout
FanoutQuestions == 1
FanoutAnswers == 1
\* notifications stored in one behaviour of Spec and of SpecFanout
MaxNotifs == 3
FanoutNotifs == 3
\* questions, answers and notifications of one behaviour of SpecSpelling
SpellQuestions == 1
SpellAnswers == 2
SpellNotifs == 0
\* questions, answers and notifications of one behaviour of SpecVote, and the
\* largest vote count (either sign) it reaches
VoteQuestions == 1
VoteAnswers == 1
VoteNotifs == 1
MaxVotes == 2
\* requests whose database steps interleave in one behaviour
MaxInflight == 2
\* questions, answers and notifications of one behaviour of SpecAcceptRace and
\* of SpecDeleteRace
RaceQuestions == 1
RaceAnswers == 2
RaceNotifs == 2
\* users stored in one behaviour of SpecAuth
MaxUsers == 5
\* questions of one behaviour of SpecTags
TagQuestions == 1
\* largest first tag of a keyword list, longest keyword list, and the hash
\* seeds 0..MaxSeed of the interpreter
MaxShift == 4
MaxRaw == 9
MaxSeed == 1
\* the notification insert of a request that raises: 0 (none) .. MaxFailAt;
\* a request attempts at most one insert per two characters and one more
MaxFailAt == 1 + (MaxLen + 1) \div 2

(* ------------------------------ values -------------------------------- *)

\* Python's None in an id field
None == 0

\* A client names a document by the 24 hex digits of its _id, in either case:
\* n is document n as str(ObjectId) prints it (lower case), -n the same digits
\* in upper case.  ObjectId parses both to the same _id.
ObjectId(id) == IF id < 0 THEN -id ELSE id

Cases == {"lower", "upper"}

Alphabet == {"@", "a", "b"}

\* the characters re's \w matches, among those of the model (" " joins a
\* question's title and description)
WordChars == {"a", "b"}

Texts == UNION {[1..n -> Alphabet] : n \in 0..MaxLen}

\* the passwords the clients send
Passwords == {"p", "q"}

\* utils.auth_utils.hash_password: the stored hash is not the password
hash_password(password) == <<"hash", password>>

\* utils.auth_utils.verify_password
verify_password(password, password_hash) == password_hash = hash_password(password)

\* a document of the users collection (models/user.py)
UserDoc(username, email, password, role) ==
  [username |-> username, email |-> email, password_hash |-> hash_password(password),
   role |-> role, is_active |-> TRUE]

\* the users collection: ids 1..3
InitUsers ==
  <<UserDoc(<<"a">>, "a@x", "p", "user"),
    UserDoc(<<"a", "b">>, "ab@x", "p", "user"),
    UserDoc(<<"b", "a">>, "ba@x", "p", "admin")>>

UserIds == DOMAIN users

\* the spellings of the ids 1..n that the clients of a behaviour send
SpelledIds(n) ==
  (1..n) \cup (IF "upper" \in limits.cases THEN {-i : i \in 1..n} ELSE {})

\* the usernames and emails the clients register and log in with: taken and free
RegNames == {<<"a">>, <<"b">>, <<"b", "b">>}
RegEmails == {"a@x", "b@x", "c@x"}

\* users_collection.find_one({"username": name}): the user's id, or None
FindUserByName(name) ==
  IF \E u \in UserIds : users[u].username = name
  THEN CHOOSE u \in UserIds : users[u].username = name
  ELSE None

\* the outcomes of the moderation call
ToxicOutcomes == {"flagged", "clean", "raises"}

\* the outcomes of the answer generator
GenOutcomes == {"answer", "error", "unavailable"}

(* --------------------------- extract_mentions ------------------------- *)

RECURSIVE WordEnd(_, _)
\* the last index of the run of word characters that starts at i (i-1: none)
WordEnd(text, i) ==
  IF i <= Len(text) /\ text[i] \in WordChars THEN WordEnd(text, i + 1) ELSE i - 1

RECURSIVE ScanMentions(_, _)
\* re.findall(r'@(\w+)', text) from index i on: leftmost, greedy, no overlap
ScanMentions(text, i) ==
  IF i > Len(text) THEN <<>>
  ELSE IF text[i] = "@" /\ WordEnd(text, i + 1) >= i + 1
       THEN <<SubSeq(text, i + 1, WordEnd(text, i + 1))>>
              \o ScanMentions(text, WordEnd(text, i + 1) + 1)
       ELSE ScanMentions(text, i + 1)

extract_mentions(text) == ScanMentions(text, 1)

(* -------------------------- create_notification ----------------------- *)

\* The notification inserts of one request are threaded through a record
\* io = [docs: the collection, n: inserts attempted, raised: an insert raised].
IoStart == [docs |-> notifications, n |-> 0, raised |-> FALSE]

NotificationDoc(user_id, from_user_id, type, question_id, answer_id) ==
  [user_id |-> user_id, from_user_id |-> from_user_id, type |-> type,
   question_id |-> question_id, answer_id |-> answer_id, read |-> FALSE]

\* faulty variant: the self-notification test is missing
create_notification_unguarded(io, failAt, user_id, from_user_id, type, question_id, answer_id) ==
  IF io.raised THEN io
  ELSE IF io.n + 1 = failAt
       THEN [io EXCEPT !.n = @ + 1, !.raised = TRUE]
       ELSE [io EXCEPT !.n = @ + 1,
                       !.docs = Append(@, NotificationDoc(user_id, from_user_id, type,
                                                          question_id, answer_id))]

create_notification(io, failAt, user_id, from_user_id, type, question_id, answer_id) ==
  IF io.raised THEN io
  ELSE IF user_id # from_user_id
       THEN IF io.n + 1 = failAt
            THEN [io EXCEPT !.n = @ + 1, !.raised = TRUE]
            ELSE [io EXCEPT !.n = @ + 1,
                            !.docs = Append(@, NotificationDoc(user_id, from_user_id, type,
                                                               question_id, answer_id))]
       ELSE io

(* ------------------------------ triggers ------------------------------ *)

\* faulty variant: recipient and sender are exchanged
notify_new_answer_swapped(io, failAt, qs, question_id, answer_id, answerer_id) ==
  IF ObjectId(question_id) \notin DOMAIN qs THEN io
  ELSE create_notification(io, failAt, answerer_id, qs[ObjectId(question_id)].user_id,
                           "answer", question_id, answer_id)

notify_new_answer(io, failAt, qs, question_id, answer_id, answerer_id) ==
  IF ObjectId(question_id) \notin DOMAIN qs THEN io
  ELSE create_notification(io, failAt, qs[ObjectId(question_id)].user_id, answerer_id,
                           "answer", question_id, answer_id)

\* faulty variant: the notification goes to the question's author
notify_accepted_answer_swapped(io, failAt, qs, as, answer_id, question_author_id) ==
  IF ObjectId(answer_id) \notin DOMAIN as THEN io
  ELSE IF ObjectId(as[ObjectId(answer_id)].question_id) \notin DOMAIN qs THEN io
  ELSE create_notification(io, failAt, question_author_id,
                           as[ObjectId(answer_id)].user_id, "accepted_answer",
                           as[ObjectId(answer_id)].question_id, answer_id)

notify_accepted_answer(io, failAt, qs, as, answer_id, question_author_id) ==
  IF ObjectId(answer_id) \notin DOMAIN as THEN io
  ELSE IF ObjectId(as[ObjectId(answer_id)].question_id) \notin DOMAIN qs THEN io
  ELSE create_notification(io, failAt, as[ObjectId(answer_id)].user_id,
                           question_author_id, "accepted_answer",
                           as[ObjectId(answer_id)].question_id, answer_id)

RECURSIVE MentionLoop_break(_, _, _, _, _, _)
\* faulty variant: an unknown username ends the loop (break for continue)
MentionLoop_break(io, failAt, mentions, k, from_user_id, ids) ==
  IF k > Len(mentions) \/ io.raised THEN io
  ELSE IF FindUserByName(mentions[k]) = None
       THEN io
       ELSE MentionLoop_break(create_notification(io, failAt, FindUserByName(mentions[k]),
                                                  from_user_id, "mention", ids[1], ids[2]),
                              failAt, mentions, k + 1, from_user_id, ids)

RECURSIVE MentionLoop(_, _, _, _, _, _)
\* the for loop of notify_mentions over mentions[k..]
MentionLoop(io, failAt, mentions, k, from_user_id, ids) ==
  IF k > Len(mentions) \/ io.raised THEN io
  ELSE IF FindUserByName(mentions[k]) = None
       THEN MentionLoop(io, failAt, mentions, k + 1, from_user_id, ids)
       ELSE MentionLoop(create_notification(io, failAt, FindUserByName(mentions[k]),
                                            from_user_id, "mention", ids[1], ids[2]),
                        failAt, mentions, k + 1, from_user_id, ids)

notify_mentions(io, failAt, content, from_user_id, question_id, answer_id) ==
  IF io.raised THEN io
  ELSE MentionLoop(io, failAt, extract_mentions(content), 1, from_user_id,
                   <<question_id, answer_id>>)

(* ------------------------------ documents ----------------------------- *)

\* an empty collection of documents keyed by id
NoDocs == [id \in {} |-> None]

\* insert_one: the collection with document doc under the fresh id
Insert(coll, id, doc) == [i \in DOMAIN coll \cup {id} |-> IF i = id THEN doc ELSE coll[i]]

\* delete_one / delete_many: the collection without the documents of gone
Delete(coll, gone) == [i \in DOMAIN coll \ gone |-> coll[i]]

\* $pull: the list without the entries equal to x
Pull(list, x) == SelectSeq(list, LAMBDA e : e # x)

(* -------------------------------- tags -------------------------------- *)

\* A tag is a word: n > 0 is a word in lower case, -n the same word with a
\* capital letter.

\* QuestionCreate.tags: max_items
max_items == 10

\* auto_tag_question(question_for_tagging, top_k=8)
top_k == 8

\* final_tags: [:10]
MaxTags == 10

\* str.lower()
lower(word) == IF word < 0 THEN -word ELSE word

\* the entries of a list
Entries(list) == {list[i] : i \in 1..Len(list)}

\* the list of n words from word lo on, each written rep times, in lower case
\* (case = 1) or with a capital letter (case = -1)
Run(lo, n, rep, case) == [i \in 1..n |-> case * (lo + (i - 1) \div rep)]

\* the tag lists a client sends: min_items .. max_items entries, repeats allowed
UserTagLists(shift) ==
  IF shift = 0 THEN {<<1>>}
  ELSE {Run(1, n, rep, case) : n \in 1..max_items, rep \in 1..2, case \in {1, -1}}

\* the ranked keywords the extraction hands to the loop of
\* extract_single_word_tags (the keywords of kw_model.extract_keywords, or the
\* words of the text in extract_tags_fallback) that pass is_good_single_word
KeywordLists(shift) ==
  IF shift = 0 THEN {<< >>}
  ELSE {Run(lo, n, rep, case) : lo \in 1..shift, n \in 0..MaxRaw, rep \in 1..2,
                                 case \in {1, -1}}

\* PYTHONHASHSEED of the server process
Seeds(shift) == IF shift = 0 THEN {0} ELSE 0..MaxSeed

\* the loop of extract_single_word_tags: the first top_k distinct keywords, in
\* lower case
RECURSIVE TagLoop(_, _, _)
TagLoop(raw_keywords, tags, k) ==
  IF raw_keywords = << >> THEN tags
  ELSE LET kw == lower(Head(raw_keywords))
       IN  IF kw \in Entries(tags) THEN TagLoop(Tail(raw_keywords), tags, k)
           ELSE IF Len(tags) + 1 >= k THEN Append(tags, kw)
           ELSE TagLoop(Tail(raw_keywords), Append(tags, kw), k)

\* question["tags"] of auto_tag_question
auto_tag_question(raw_keywords, k) == TagLoop(raw_keywords, << >>, k)

\* the hash of a word under the interpreter's hash seed: the words are spread
\* over the slots of the set's table
Slot(word, seed) ==
  ((IF word < 0 THEN 2 * (-word) + 1 ELSE 2 * word) * (seed + 1)) % 47

\* word x comes before word y when a set is listed
Before(x, y, seed) ==
  \/ Slot(x, seed) < Slot(y, seed)
  \/ Slot(x, seed) = Slot(y, seed) /\ x <= y

\* list(set): every member once, in the order of the slots
RECURSIVE ListOfSet(_, _)
ListOfSet(set, seed) ==
  IF set = {} THEN << >>
  ELSE LET first == CHOOSE x \in set : \A y \in set : Before(x, y, seed)
       IN  <<first>> \o ListOfSet(set \ {first}, seed)

\* list[:n]
Slice(list, n) == SubSeq(list, 1, IF Len(list) < n THEN Len(list) ELSE n)

\* faulty variant: the lists joined without set()
final_tags_joined(tags, ai_suggested_tags, seed) ==
  Slice(tags \o ai_suggested_tags, MaxTags)

\* list(set(question_data.tags + ai_suggested_tags))[:10]
final_tags(tags, ai_suggested_tags, seed) ==
  Slice(ListOfSet(Entries(tags \o ai_suggested_tags), seed), MaxTags)

(* ------------------------------ requests ------------------------------ *)

\* what last records of a request
Request(op, caller, status) ==
  [op |-> op, caller |-> caller, status |-> status, qid |-> None, aid |-> None,
   title |-> <<>>, text |-> <<>>, flagged |-> FALSE, failed |-> FALSE,
   nbefore |-> Len(notifications), prev |-> None, gen |-> "", action |-> "",
   username |-> <<>>, email |-> "", password |-> "", detail |-> "", token |-> <<>>,
   tags |-> <<>>, ai_tags |-> <<>>]

\* last before the first request
NoRequest ==
  [op |-> "none", caller |-> None, status |-> 0, qid |-> None, aid |-> None,
   title |-> <<>>, text |-> <<>>, flagged |-> FALSE, failed |-> FALSE,
   nbefore |-> 0, prev |-> None, gen |-> "", action |-> "",
   username |-> <<>>, email |-> "", password |-> "", detail |-> "", token |-> <<>>,
   tags |-> <<>>, ai_tags |-> <<>>]

InitDb ==
  /\ users = InitUsers
  /\ questions = NoDocs
  /\ answers = NoDocs
  /\ notifications = << >>
  /\ nextQ = 1
  /\ nextA = 1
  /\ last = NoRequest

Init ==
  /\ InitDb
  /\ payload = << >>
  /\ limits = [questions |-> MaxQuestions, answers |-> MaxAnswers, notifs |-> MaxNotifs,
               cases |-> {"lower"}, shift |-> 0]
  /\ inflight = << >>

InitFanout ==
  /\ InitDb
  /\ payload \in Texts
  /\ limits = [questions |-> FanoutQuestions, answers |-> FanoutAnswers,
               notifs |-> FanoutNotifs, cases |-> {"lower"}, shift |-> 0]
  /\ inflight = << >>

\* the state a handler leaves and the request it served
Outcome(qs, as, ns, nq, na, req) ==
  [questions |-> qs, answers |-> as, notifications |-> ns, nextQ |-> nq, nextA |-> na,
   last |-> req]

\* a request that changes nothing
Rejected(req) == Outcome(questions, answers, notifications, nextQ, nextA, req)

\* title + " " + description
CombinedText(title, description) == title \o <<" ">> \o description

create_question(u, title, description, tags, raw_keywords, seed, tox, failAt) ==
  LET combined_text == CombinedText(title, description)
      ai_suggested_tags == auto_tag_question(raw_keywords, top_k)
      req == [Request("create_question", u, 201) EXCEPT
                !.title = title, !.text = description, !.flagged = (tox = "flagged")]
      question_id == nextQ
      question_doc == [tags |-> final_tags(tags, ai_suggested_tags, seed),
                       user_id |-> u, answers |-> <<>>, accepted_answer |-> None]
      io == notify_mentions(IoStart, failAt, combined_text, u, question_id, None)
  IN  IF tox = "raises" THEN Rejected([req EXCEPT !.status = 500])
      ELSE IF tox = "flagged" THEN Rejected([req EXCEPT !.status = 400])
      ELSE Outcome(Insert(questions, question_id, question_doc), answers, io.docs,
                   nextQ + 1, nextA,
                   [req EXCEPT !.qid = question_id, !.failed = io.raised,
                               !.status = IF io.raised THEN 500 ELSE 201,
                               !.tags = tags, !.ai_tags = ai_suggested_tags])

\* both triggers of create_answer under one try/except
AnswerTriggers(failAt, content, u, question_id, answer_id) ==
  notify_mentions(
    notify_new_answer(IoStart, failAt, questions, question_id, answer_id, u),
    failAt, content, u, question_id, answer_id)

\* faulty variant: the moderation verdict is ignored
AnswerFlagged_never(tox) == FALSE

\* is_toxic_content of create_answer: a moderation call that raises counts as clean
AnswerFlagged(tox) == tox = "flagged"

create_answer(u, question_id, content, tox, failAt) ==
  LET req == [Request("create_answer", u, 201) EXCEPT
                !.qid = question_id, !.text = content, !.flagged = (tox = "flagged")]
      answer_id == nextA
      answer_doc == [question_id |-> question_id, user_id |-> u, votes |-> 0,
                     is_accepted |-> FALSE]
      io == AnswerTriggers(failAt, content, u, question_id, answer_id)
  IN  IF ObjectId(question_id) \notin DOMAIN questions
      THEN Rejected([req EXCEPT !.status = 404, !.flagged = FALSE])
      ELSE IF AnswerFlagged(tox) THEN Rejected([req EXCEPT !.status = 400])
      ELSE Outcome([questions EXCEPT ![ObjectId(question_id)].answers =
                                       Append(@, answer_id)],
                   Insert(answers, answer_id, answer_doc), io.docs, nextQ, nextA + 1,
                   [req EXCEPT !.aid = answer_id, !.failed = io.raised])

create_ai_answer(u, question_id, gen, failAt) ==
  LET req == [Request("create_ai_answer", u, 201) EXCEPT !.qid = question_id, !.gen = gen]
      answer_id == nextA
      answer_doc == [question_id |-> question_id, user_id |-> u, votes |-> 0,
                     is_accepted |-> FALSE]
      io == notify_new_answer(IoStart, failAt, questions, question_id, answer_id, u)
  IN  IF ObjectId(question_id) \notin DOMAIN questions
      THEN Rejected([req EXCEPT !.status = 404])
      ELSE IF users[u].role \notin {"admin", "user"}
      THEN Rejected([req EXCEPT !.status = 403])
      ELSE IF gen = "error" THEN Rejected([req EXCEPT !.status = 500])
      ELSE Outcome([questions EXCEPT ![ObjectId(question_id)].answers =
                                       Append(@, answer_id)],
                   Insert(answers, answer_id, answer_doc), io.docs, nextQ, nextA + 1,
                   [req EXCEPT !.aid = answer_id, !.failed = io.raised])

\* faulty variant: an admin may accept as well
MayAccept_admin(u, question) == question.user_id = u \/ users[u].role = "admin"

\* the caller of accept_answer is the question's author
MayAccept(u, question) == question.user_id = u

\* update_many({"question_id": qid}, {"$set": {"is_accepted": False}}): the
\* filter compares the stored strings
Unaccept(as, qid) ==
  [a \in DOMAIN as |->
     IF as[a].question_id = qid THEN [as[a] EXCEPT !.is_accepted = FALSE] ELSE as[a]]

accept_answer(u, answer_id, failAt) ==
  LET req == [Request("accept_answer", u, 200) EXCEPT !.aid = answer_id]
      answer == answers[ObjectId(answer_id)]
      qid == ObjectId(answer.question_id)
      accepted == [Unaccept(answers, answer.question_id) EXCEPT
                     ![ObjectId(answer_id)].is_accepted = TRUE]
      qs == [questions EXCEPT ![qid].accepted_answer = answer_id]
      io == notify_accepted_answer(IoStart, failAt, qs, accepted, answer_id, u)
  IN  IF ObjectId(answer_id) \notin DOMAIN answers
      THEN Rejected([req EXCEPT !.status = 404])
      ELSE IF qid \notin DOMAIN questions
      THEN Rejected([req EXCEPT !.status = 404, !.qid = qid])
      ELSE IF ~MayAccept(u, questions[qid])
      THEN Rejected([req EXCEPT !.status = 403, !.qid = qid])
      ELSE Outcome(qs, accepted, io.docs, nextQ, nextA,
                   [req EXCEPT !.qid = qid, !.prev = questions[qid].accepted_answer,
                               !.failed = io.raised,
                               !.status = IF io.raised THEN 500 ELSE 200])

\* faulty variant: any user may delete
MayDelete_any(u, doc) == TRUE

\* the caller of delete_question / delete_answer is the author or an admin
MayDelete(u, doc) == ~(doc.user_id # u /\ users[u].role # "admin")

delete_answer(u, answer_id) ==
  LET req == [Request("delete_answer", u, 204) EXCEPT !.aid = answer_id]
      answer == answers[ObjectId(answer_id)]
      qid == ObjectId(answer.question_id)
      pulled == IF qid \in DOMAIN questions
                THEN [questions EXCEPT ![qid].answers = Pull(@, answer_id)]
                ELSE questions
      reset == IF answer.is_accepted /\ qid \in DOMAIN questions
               THEN [pulled EXCEPT ![qid].accepted_answer = None]
               ELSE pulled
  IN  IF ObjectId(answer_id) \notin DOMAIN answers
      THEN Rejected([req EXCEPT !.status = 404])
      ELSE IF ~MayDelete(u, answer)
      THEN Rejected([req EXCEPT !.status = 403, !.qid = qid])
      ELSE Outcome(reset, Delete(answers, {ObjectId(answer_id)}), notifications,
                   nextQ, nextA,
                   [req EXCEPT !.qid = qid,
                               !.prev = IF qid \in DOMAIN questions
                                        THEN questions[qid].accepted_answer ELSE None])

\* the documents delete_many({"question_id": question_id}) matches: the filter
\* compares the stored strings
AnswersOf(as, question_id) == {a \in DOMAIN as : as[a].question_id = question_id}

delete_question(u, question_id) ==
  LET req == [Request("delete_question", u, 204) EXCEPT !.qid = question_id]
  IN  IF ObjectId(question_id) \notin DOMAIN questions
      THEN Rejected([req EXCEPT !.status = 404])
      ELSE IF ~MayDelete(u, questions[ObjectId(question_id)])
      THEN Rejected([req EXCEPT !.status = 403])
      ELSE Outcome(Delete(questions, {ObjectId(question_id)}),
                   Delete(answers, AnswersOf(answers, question_id)),
                   notifications, nextQ, nextA, req)

\* VoteAction.action
VoteActions == {"upvote", "downvote", "remove"}

\* what the action adds to votes; "remove" matches no branch
VoteDelta(action) ==
  IF action = "upvote" THEN 1 ELSE IF action = "downvote" THEN -1 ELSE 0

\* faulty variant: the author may vote
OwnAnswer_never(u, answer) == FALSE

\* the caller of vote_answer wrote the answer
OwnAnswer(u, answer) == answer.user_id = u

\* faulty variant: $set in place of $inc
Inc_set(as, answer_id, d) ==
  IF answer_id \in DOMAIN as THEN [as EXCEPT ![answer_id].votes = d] ELSE as

\* update_one({"_id": answer_id}, {"$inc": {"votes": d}}): one atomic step of
\* the database, without effect when no document matches
Inc(as, answer_id, d) ==
  IF answer_id \in DOMAIN as THEN [as EXCEPT ![answer_id].votes = @ + d] ELSE as

vote_answer(u, answer_id, action) ==
  LET req == [Request("vote_answer", u, 200) EXCEPT !.aid = answer_id, !.action = action]
      answer == answers[ObjectId(answer_id)]
      voted == IF action \in {"upvote", "downvote"}
               THEN Inc(answers, ObjectId(answer_id), VoteDelta(action))
               ELSE answers
  IN  IF ObjectId(answer_id) \notin DOMAIN answers
      THEN Rejected([req EXCEPT !.status = 404])
      ELSE IF OwnAnswer(u, answer)
      THEN Rejected([req EXCEPT !.status = 400, !.qid = answer.question_id,
                                !.prev = answer.votes])
      ELSE Outcome(questions, voted, notifications, nextQ, nextA,
                   [req EXCEPT !.qid = answer.question_id, !.prev = answer.votes])

\* the users a handler leaves and the request it served
AuthOutcome(us, req) == [users |-> us, last |-> req]

\* faulty variant: the email is not looked up
EmailTaken_never(email) == FALSE

\* users_collection.find_one({"email": email})
EmailTaken(email) == \E u \in UserIds : users[u].email = email

register(username, email, password) ==
  LET req == [Request("register", None, 201) EXCEPT
                !.username = username, !.email = email, !.password = password]
  IN  IF FindUserByName(username) # None
      THEN AuthOutcome(users, [req EXCEPT !.status = 400,
                                          !.detail = "Username already registered"])
      ELSE IF EmailTaken(email)
      THEN AuthOutcome(users, [req EXCEPT !.status = 400,
                                          !.detail = "Email already registered"])
      ELSE AuthOutcome(Append(users, UserDoc(username, email, password, "user")), req)

\* utils.auth_utils.create_access_token(data={"sub": ..., "role": ...})
create_access_token(sub, role) == <<sub, role>>

\* faulty variant: a deactivated account logs in
Deactivated_never(user) == FALSE

\* not user.get("is_active", True)
Deactivated(user) == ~user.is_active

login(username, password) ==
  LET req == [Request("login", None, 200) EXCEPT
                !.username = username, !.password = password]
      u == FindUserByName(username)
      user == users[u]
  IN  IF u = None
      THEN AuthOutcome(users, [req EXCEPT !.status = 401,
                                          !.detail = "Incorrect username or password"])
      ELSE IF ~verify_password(password, user.password_hash)
      THEN AuthOutcome(users, [req EXCEPT !.status = 401,
                                          !.detail = "Incorrect username or password"])
      ELSE IF Deactivated(user)
      THEN AuthOutcome(users, [req EXCEPT !.status = 401,
                                          !.detail = "Account is deactivated"])
      ELSE AuthOutcome(users, [req EXCEPT !.caller = u,
                                          !.token = create_access_token(user.username,
                                                                        user.role)])

(* ------------------------------ actions ------------------------------- *)

Serve(r) ==
  /\ Len(r.notifications) <= limits.notifs
  /\ questions' = r.questions
  /\ answers' = r.answers
  /\ notifications' = r.notifications
  /\ nextQ' = r.nextQ
  /\ nextA' = r.nextA
  /\ last' = r.last
  /\ UNCHANGED <<users, payload, limits, inflight>>

\* the notification insert of create_question that raises; an empty text
\* names nobody and no insert is attempted
MentionFailAts == IF payload = << >> THEN {0} ELSE 0..MaxFailAt

CreateQuestion ==
  /\ nextQ <= limits.questions
  /\ \E u \in UserIds, k \in 0..Len(payload), tags \in UserTagLists(limits.shift),
        raw_keywords \in KeywordLists(limits.shift), seed \in Seeds(limits.shift),
        tox \in ToxicOutcomes, failAt \in MentionFailAts :
       Serve(create_question(u, SubSeq(payload, 1, k), SubSeq(payload, k + 1, Len(payload)),
                             tags, raw_keywords, seed, tox, failAt))

CreateAnswer ==
  /\ nextA <= limits.answers
  /\ \E u \in UserIds, q \in SpelledIds(limits.questions), tox \in ToxicOutcomes,
        failAt \in 0..MaxFailAt :
       Serve(create_answer(u, q, payload, tox, failAt))

CreateAiAnswer ==
  /\ nextA <= limits.answers
  /\ \E u \in UserIds, q \in SpelledIds(limits.questions), gen \in GenOutcomes,
        failAt \in 0..MaxFailAt :
       Serve(create_ai_answer(u, q, gen, failAt))

AcceptAnswer ==
  \E u \in UserIds, a \in SpelledIds(limits.answers), failAt \in 0..MaxFailAt :
     Serve(accept_answer(u, a, failAt))

DeleteAnswer ==
  \E u \in UserIds, a \in SpelledIds(limits.answers) : Serve(delete_answer(u, a))

DeleteQuestion ==
  \E u \in UserIds, q \in SpelledIds(limits.questions) : Serve(delete_question(u, q))

Next ==
  \/ CreateQuestion
  \/ CreateAnswer
  \/ CreateAiAnswer
  \/ AcceptAnswer
  \/ DeleteAnswer
  \/ DeleteQuestion

Spec == Init /\ [][Next]_vars

SpecFanout == InitFanout /\ [][Next]_vars

\* the same handlers, the clients spelling the ids in either case
InitSpelling ==
  /\ InitDb
  /\ payload = << >>
  /\ limits = [questions |-> SpellQuestions, answers |-> SpellAnswers,
               notifs |-> SpellNotifs, cases |-> Cases, shift |-> 0]
  /\ inflight = << >>

SpecSpelling == InitSpelling /\ [][Next]_vars

VoteAnswer ==
  \E u \in UserIds, a \in SpelledIds(limits.answers), action \in VoteActions :
     LET r == vote_answer(u, a, action)
     IN  /\ \A x \in DOMAIN r.answers : r.answers[x].votes \in -MaxVotes..MaxVotes
         /\ Serve(r)

\* questions, answers and the votes on them
InitVote ==
  /\ InitDb
  /\ payload = << >>
  /\ limits = [questions |-> VoteQuestions, answers |-> VoteAnswers, notifs |-> VoteNotifs,
               cases |-> {"lower"}, shift |-> 0]
  /\ inflight = << >>

NextVote ==
  \/ CreateQuestion
  \/ CreateAnswer
  \/ VoteAnswer

SpecVote == InitVote /\ [][NextVote]_vars

\* create_question on the tag lists of UserTagLists and KeywordLists
InitTags ==
  /\ InitDb
  /\ payload = << >>
  /\ limits = [questions |-> TagQuestions, answers |-> 0, notifs |-> 0,
               cases |-> {"lower"}, shift |-> MaxShift]
  /\ inflight = << >>

NextTags == CreateQuestion

SpecTags == InitTags /\ [][NextTags]_vars

ServeAuth(r) ==
  /\ Len(r.users) <= MaxUsers
  /\ users' = r.users
  /\ last' = r.last
  /\ UNCHANGED <<questions, answers, notifications, nextQ, nextA, payload, limits, inflight>>

Register ==
  \E username \in RegNames, email \in RegEmails, password \in Passwords :
     ServeAuth(register(username, email, password))

Login ==
  \E username \in RegNames, password \in Passwords : ServeAuth(login(username, password))

\* the stored accounts, one of them active or deactivated
InitAuth ==
  /\ users \in {[InitUsers EXCEPT ![1].is_active = active] : active \in BOOLEAN}
  /\ questions = NoDocs
  /\ answers = NoDocs
  /\ notifications = << >>
  /\ nextQ = 1
  /\ nextA = 1
  /\ last = NoRequest
  /\ payload = << >>
  /\ limits = [questions |-> 0, answers |-> 0, notifs |-> 0,
               cases |-> {"lower"}, shift |-> 0]
  /\ inflight = << >>

NextAuth ==
  \/ Register
  \/ Login

SpecAuth == InitAuth /\ [][NextAuth]_vars

(* ------------------------- concurrent requests ------------------------ *)

\* The handlers take no lock and open no transaction, and the server may run
\* as several worker processes on one database: what is atomic is one call
\* of the database driver.  inflight holds the requests being served, each
\* with the position (pc) of its handler between two such calls.

\* a request that has not arrived yet; the requests in flight name the
\* documents (qid, aid) in lower case
Idle ==
  [op |-> "none", pc |-> "idle", caller |-> None, qid |-> None, aid |-> None,
   action |-> "", username |-> <<>>, email |-> "", password |-> "", status |-> 0,
   count |-> 0]

Slots == DOMAIN inflight

NoRequests == [i \in 1..MaxInflight |-> Idle]

\* every request has been answered or has not arrived
Quiescent == \A i \in Slots : inflight[i].pc \in {"idle", "done"}

\* the handler of request i moves on / returns or raises with the status
Goto(i, pc) == [inflight EXCEPT ![i].pc = pc]
Respond(i, status) == [inflight EXCEPT ![i].pc = "done", ![i].status = status]

\* a step of a request that writes to no collection
ReadOnly ==
  UNCHANGED <<users, questions, answers, notifications, nextQ, nextA, payload, limits, last>>

\* vote_answer arrives
VoteBegin ==
  \E i \in Slots, u \in UserIds, a \in 1..limits.answers, action \in VoteActions :
     /\ inflight[i].pc = "idle"
     /\ inflight' = [inflight EXCEPT ![i] = [Idle EXCEPT !.op = "vote_answer", !.pc = "find",
                                                         !.caller = u, !.aid = a,
                                                         !.action = action]]
     /\ ReadOnly

\* vote_answer: find_one and the two checks
VoteFind ==
  \E i \in Slots :
     /\ inflight[i].op = "vote_answer" /\ inflight[i].pc = "find"
     /\ inflight' = IF inflight[i].aid \notin DOMAIN answers THEN Respond(i, 404)
                    ELSE IF OwnAnswer(inflight[i].caller, answers[inflight[i].aid])
                    THEN Respond(i, 400)
                    ELSE Goto(i, "update")
     /\ ReadOnly

\* vote_answer: the $inc of "upvote" or "downvote"
VoteUpdate ==
  \E i \in Slots :
     /\ inflight[i].op = "vote_answer" /\ inflight[i].pc = "update"
     /\ answers' = IF inflight[i].action \in {"upvote", "downvote"}
                   THEN Inc(answers, inflight[i].aid, VoteDelta(inflight[i].action))
                   ELSE answers
     /\ inflight' = Goto(i, "reread")
     /\ UNCHANGED <<users, questions, notifications, nextQ, nextA, payload, limits, last>>

\* vote_answer: the second find_one and the response with new_vote_count
VoteReread ==
  \E i \in Slots :
     /\ inflight[i].op = "vote_answer" /\ inflight[i].pc = "reread"
     /\ inflight' = IF inflight[i].aid \in DOMAIN answers
                    THEN [Respond(i, 200) EXCEPT ![i].count = answers[inflight[i].aid].votes]
                    ELSE Respond(i, 500)
     /\ ReadOnly

\* vote requests in flight together, on the documents the handlers create
InitVoteRace ==
  /\ InitDb
  /\ payload = << >>
  /\ limits = [questions |-> VoteQuestions, answers |-> VoteAnswers, notifs |-> VoteNotifs,
               cases |-> {"lower"}, shift |-> 0]
  /\ inflight = NoRequests

NextVoteRace ==
  \/ CreateQuestion
  \/ CreateAnswer
  \/ VoteBegin
  \/ VoteFind
  \/ VoteUpdate
  \/ VoteReread

SpecVoteRace == InitVoteRace /\ [][NextVoteRace]_vars

\* accept_answer arrives
AcceptBegin ==
  \E i \in Slots, u \in UserIds, a \in 1..limits.answers :
     /\ inflight[i].pc = "idle"
     /\ inflight' = [inflight EXCEPT ![i] = [Idle EXCEPT !.op = "accept_answer",
                                                         !.pc = "find", !.caller = u,
                                                         !.aid = a]]
     /\ ReadOnly

\* accept_answer: find_one of the answer
AcceptFind ==
  \E i \in Slots :
     /\ inflight[i].op = "accept_answer" /\ inflight[i].pc = "find"
     /\ inflight' = IF inflight[i].aid \notin DOMAIN answers THEN Respond(i, 404)
                    ELSE [Goto(i, "question") EXCEPT
                            ![i].qid = answers[inflight[i].aid].question_id]
     /\ ReadOnly

\* accept_answer: find_one of the question and the author check
AcceptQuestion ==
  \E i \in Slots :
     /\ inflight[i].op = "accept_answer" /\ inflight[i].pc = "question"
     /\ inflight' = IF inflight[i].qid \notin DOMAIN questions THEN Respond(i, 404)
                    ELSE IF ~MayAccept(inflight[i].caller, questions[inflight[i].qid])
                    THEN Respond(i, 403)
                    ELSE Goto(i, "unaccept")
     /\ ReadOnly

\* accept_answer: update_many that clears is_accepted on the question's answers
AcceptUnaccept ==
  \E i \in Slots :
     /\ inflight[i].op = "accept_answer" /\ inflight[i].pc = "unaccept"
     /\ answers' = Unaccept(answers, inflight[i].qid)
     /\ inflight' = Goto(i, "accept")
     /\ UNCHANGED <<users, questions, notifications, nextQ, nextA, payload, limits, last>>

\* accept_answer: update_one that sets is_accepted on the answer
AcceptSet ==
  \E i \in Slots :
     /\ inflight[i].op = "accept_answer" /\ inflight[i].pc = "accept"
     /\ answers' = IF inflight[i].aid \in DOMAIN answers
                   THEN [answers EXCEPT ![inflight[i].aid].is_accepted = TRUE]
                   ELSE answers
     /\ inflight' = Goto(i, "record")
     /\ UNCHANGED <<users, questions, notifications, nextQ, nextA, payload, limits, last>>

\* accept_answer: update_one that sets the question's accepted_answer
AcceptRecord ==
  \E i \in Slots :
     /\ inflight[i].op = "accept_answer" /\ inflight[i].pc = "record"
     /\ questions' = IF inflight[i].qid \in DOMAIN questions
                     THEN [questions EXCEPT ![inflight[i].qid].accepted_answer =
                                              inflight[i].aid]
                     ELSE questions
     /\ inflight' = Goto(i, "notify")
     /\ UNCHANGED <<users, answers, notifications, nextQ, nextA, payload, limits, last>>

\* accept_answer: await notify_accepted_answer and the response
AcceptNotify ==
  \E i \in Slots, failAt \in 0..1 :
     LET io == notify_accepted_answer(IoStart, failAt, questions, answers,
                                      inflight[i].aid, inflight[i].caller)
     IN  /\ inflight[i].op = "accept_answer" /\ inflight[i].pc = "notify"
         /\ Len(io.docs) <= limits.notifs
         /\ notifications' = io.docs
         /\ inflight' = Respond(i, IF io.raised THEN 500 ELSE 200)
         /\ UNCHANGED <<users, questions, answers, nextQ, nextA, payload, limits, last>>

\* accept requests in flight together, on the documents the handlers create
InitAcceptRace ==
  /\ InitDb
  /\ payload = << >>
  /\ limits = [questions |-> RaceQuestions, answers |-> RaceAnswers, notifs |-> RaceNotifs,
               cases |-> {"lower"}, shift |-> 0]
  /\ inflight = NoRequests

NextAcceptRace ==
  \/ CreateQuestion
  \/ CreateAnswer
  \/ AcceptBegin
  \/ AcceptFind
  \/ AcceptQuestion
  \/ AcceptUnaccept
  \/ AcceptSet
  \/ AcceptRecord
  \/ AcceptNotify

SpecAcceptRace == InitAcceptRace /\ [][NextAcceptRace]_vars

\* create_answer or create_ai_answer arrives
AnswerBegin ==
  \E i \in Slots, u \in UserIds, q \in 1..limits.questions,
     op \in {"create_answer", "create_ai_answer"} :
     /\ inflight[i].pc = "idle"
     /\ inflight' = [inflight EXCEPT ![i] = [Idle EXCEPT !.op = op, !.pc = "find",
                                                         !.caller = u, !.qid = q]]
     /\ ReadOnly

\* create_answer: find_one of the question and the moderation of the content
AnswerFind ==
  \E i \in Slots, tox \in ToxicOutcomes :
     /\ inflight[i].op = "create_answer" /\ inflight[i].pc = "find"
     /\ inflight' = IF inflight[i].qid \notin DOMAIN questions THEN Respond(i, 404)
                    ELSE IF AnswerFlagged(tox) THEN Respond(i, 400)
                    ELSE Goto(i, "insert")
     /\ ReadOnly

\* create_ai_answer: find_one of the question, the role check and the generator
AiAnswerFind ==
  \E i \in Slots, gen \in GenOutcomes :
     /\ inflight[i].op = "create_ai_answer" /\ inflight[i].pc = "find"
     /\ inflight' = IF inflight[i].qid \notin DOMAIN questions THEN Respond(i, 404)
                    ELSE IF users[inflight[i].caller].role \notin {"admin", "user"}
                    THEN Respond(i, 403)
                    ELSE IF gen = "error" THEN Respond(i, 500)
                    ELSE Goto(i, "insert")
     /\ ReadOnly

\* create_answer, create_ai_answer: insert_one of the answer
AnswerInsert ==
  \E i \in Slots :
     /\ inflight[i].op \in {"create_answer", "create_ai_answer"}
     /\ inflight[i].pc = "insert"
     /\ nextA <= limits.answers
     /\ answers' = Insert(answers, nextA,
                          [question_id |-> inflight[i].qid, user_id |-> inflight[i].caller,
                           votes |-> 0, is_accepted |-> FALSE])
     /\ nextA' = nextA + 1
     /\ inflight' = [Goto(i, "push") EXCEPT ![i].aid = nextA]
     /\ UNCHANGED <<users, questions, notifications, nextQ, payload, limits, last>>

\* create_answer, create_ai_answer: $push of the answer's id to question.answers
AnswerPush ==
  \E i \in Slots :
     /\ inflight[i].op \in {"create_answer", "create_ai_answer"}
     /\ inflight[i].pc = "push"
     /\ questions' = IF inflight[i].qid \in DOMAIN questions
                     THEN [questions EXCEPT ![inflight[i].qid].answers =
                                              Append(@, inflight[i].aid)]
                     ELSE questions
     /\ inflight' = Goto(i, "reread")
     /\ UNCHANGED <<users, answers, notifications, nextQ, nextA, payload, limits, last>>

\* create_answer, create_ai_answer: find_one of the created answer, whose
\* fields the response reads
AnswerReread ==
  \E i \in Slots :
     /\ inflight[i].op \in {"create_answer", "create_ai_answer"}
     /\ inflight[i].pc = "reread"
     /\ inflight' = IF inflight[i].aid \in DOMAIN answers THEN Goto(i, "notify")
                    ELSE Respond(i, 500)
     /\ ReadOnly

\* create_answer, create_ai_answer: the notifications and the response
AnswerNotify ==
  \E i \in Slots, failAt \in 0..1 :
     LET r == inflight[i]
         io == IF r.op = "create_answer"
               THEN AnswerTriggers(failAt, payload, r.caller, r.qid, r.aid)
               ELSE notify_new_answer(IoStart, failAt, questions, r.qid, r.aid, r.caller)
     IN  /\ r.op \in {"create_answer", "create_ai_answer"}
         /\ r.pc = "notify"
         /\ Len(io.docs) <= limits.notifs
         /\ notifications' = io.docs
         /\ inflight' = Respond(i, 201)
         /\ UNCHANGED <<users, questions, answers, nextQ, nextA, payload, limits, last>>

\* delete_question arrives
DeleteBegin ==
  \E i \in Slots, u \in UserIds, q \in 1..limits.questions :
     /\ inflight[i].pc = "idle"
     /\ inflight' = [inflight EXCEPT ![i] = [Idle EXCEPT !.op = "delete_question",
                                                         !.pc = "find", !.caller = u,
                                                         !.qid = q]]
     /\ ReadOnly

\* delete_question: find_one of the question and the permission check
DeleteFind ==
  \E i \in Slots :
     /\ inflight[i].op = "delete_question" /\ inflight[i].pc = "find"
     /\ inflight' = IF inflight[i].qid \notin DOMAIN questions THEN Respond(i, 404)
                    ELSE IF ~MayDelete(inflight[i].caller, questions[inflight[i].qid])
                    THEN Respond(i, 403)
                    ELSE Goto(i, "delete")
     /\ ReadOnly

\* delete_question: delete_one of the question
DeleteOne ==
  \E i \in Slots :
     /\ inflight[i].op = "delete_question" /\ inflight[i].pc = "delete"
     /\ questions' = Delete(questions, {inflight[i].qid})
     /\ inflight' = Goto(i, "cascade")
     /\ UNCHANGED <<users, answers, notifications, nextQ, nextA, payload, limits, last>>

\* delete_question: delete_many of the question's answers and the response
DeleteMany ==
  \E i \in Slots :
     /\ inflight[i].op = "delete_question" /\ inflight[i].pc = "cascade"
     /\ answers' = Delete(answers, AnswersOf(answers, inflight[i].qid))
     /\ inflight' = Respond(i, 204)
     /\ UNCHANGED <<users, questions, notifications, nextQ, nextA, payload, limits, last>>

\* answers being created while their question is being deleted
InitDeleteRace ==
  /\ InitDb
  /\ payload = << >>
  /\ limits = [questions |-> RaceQuestions, answers |-> RaceAnswers, notifs |-> RaceNotifs,
               cases |-> {"lower"}, shift |-> 0]
  /\ inflight = NoRequests

NextDeleteRace ==
  \/ CreateQuestion
  \/ AnswerBegin
  \/ AnswerFind
  \/ AiAnswerFind
  \/ AnswerInsert
  \/ AnswerPush
  \/ AnswerReread
  \/ AnswerNotify
  \/ DeleteBegin
  \/ DeleteFind
  \/ DeleteOne
  \/ DeleteMany

SpecDeleteRace == InitDeleteRace /\ [][NextDeleteRace]_vars

\* register arrives
RegisterBegin ==
  \E i \in Slots, username \in RegNames, email \in RegEmails, password \in Passwords :
     /\ inflight[i].pc = "idle"
     /\ inflight' = [inflight EXCEPT ![i] = [Idle EXCEPT !.op = "register",
                                                         !.pc = "username",
                                                         !.username = username,
                                                         !.email = email,
                                                         !.password = password]]
     /\ ReadOnly

\* register: find_one by username
RegisterFindName ==
  \E i \in Slots :
     /\ inflight[i].op = "register" /\ inflight[i].pc = "username"
     /\ inflight' = IF FindUserByName(inflight[i].username) # None THEN Respond(i, 400)
                    ELSE Goto(i, "email")
     /\ ReadOnly

\* register: find_one by email
RegisterFindEmail ==
  \E i \in Slots :
     /\ inflight[i].op = "register" /\ inflight[i].pc = "email"
     /\ inflight' = IF EmailTaken(inflight[i].email) THEN Respond(i, 400)
                    ELSE Goto(i, "insert")
     /\ ReadOnly

\* register: insert_one into a collection that accepts any document, and the
\* response
RegisterInsert ==
  \E i \in Slots :
     /\ inflight[i].op = "register" /\ inflight[i].pc = "insert"
     /\ Len(users) < MaxUsers
     /\ users' = Append(users, UserDoc(inflight[i].username, inflight[i].email,
                                       inflight[i].password, "user"))
     /\ inflight' = Respond(i, 201)
     /\ UNCHANGED <<questions, answers, notifications, nextQ, nextA, payload, limits, last>>

\* register requests in flight together
InitRegisterRace ==
  /\ InitDb
  /\ payload = << >>
  /\ limits = [questions |-> 0, answers |-> 0, notifs |-> 0,
               cases |-> {"lower"}, shift |-> 0]
  /\ inflight = NoRequests

NextRegisterRace ==
  \/ RegisterBegin
  \/ RegisterFindName
  \/ RegisterFindEmail
  \/ RegisterInsert

SpecRegisterRace == InitRegisterRace /\ [][NextRegisterRace]_vars

(* ------------------------------- claims ------------------------------- *)

\* the notifications the latest request added (the collection only grows)
Added == SubSeq(notifications, last.nbefore + 1, Len(notifications))

AddedOfType(type) == SelectSeq(Added, LAMBDA n : n.type = type)

\* text holds "@" followed by exactly name: name is a whole run of word
\* characters that directly follows an "@"
NamedIn(name, text) ==
  /\ name # << >>
  /\ \A j \in 1..Len(name) : name[j] \in WordChars
  /\ \E i \in 1..Len(text) :
       /\ text[i] = "@"
       /\ i + Len(name) <= Len(text)
       /\ SubSeq(text, i + 1, i + Len(name)) = name
       /\ (i + Len(name) = Len(text) \/ text[i + Len(name) + 1] \notin WordChars)

\* user u is @mentioned in the post of the latest request
Mentioned(u) ==
  NamedIn(users[u].username, last.title) \/ NamedIn(users[u].username, last.text)

Posted == last.op \in {"create_question", "create_answer"} /\ last.status \in {201, 500}

\* C1: no stored notification is addressed to the user who caused it.
NoSelfNotification ==
  \A i \in 1..Len(notifications) :
    notifications[i].user_id # notifications[i].from_user_id

\* C1 witness: a user answered their own question and @mentioned themselves.
SelfAnswerWithSelfMention ==
  /\ last.op = "create_answer" /\ last.status = 201
  /\ questions[last.qid].user_id = last.caller
  /\ Mentioned(last.caller)

\* C2: one created question or answer adds at most one 'mention' notification
\* per recipient.
OneMentionPerRecipient ==
  Posted =>
    \A u \in UserIds :
      Len(SelectSeq(AddedOfType("mention"), LAMBDA n : n.user_id = u)) <= 1

\* the notifications a post owes: <<recipient, type>>
Owed ==
  {<<u, "mention">> : u \in {v \in UserIds : v # last.caller /\ Mentioned(v)}}
    \cup (IF last.op = "create_answer" /\ questions[last.qid].user_id # last.caller
          THEN {<<questions[last.qid].user_id, "answer">>} ELSE {})

Missing ==
  {o \in Owed : ~\E i \in 1..Len(Added) : Added[i].user_id = o[1] /\ Added[i].type = o[2]}

\* C3: when the insert for one recipient of a post raises, the notifications
\* owed to the other recipients of that post are still created: at most the
\* one whose insert raised is missing.
OthersStillNotified ==
  (Posted /\ last.failed) => Cardinality(Missing) <= 1

\* C4: an answer to another user's question, with no insert raising, adds
\* exactly one 'answer' notification: to the question's author, from the
\* answerer, with the question's and the new answer's id, unread.
AnswerNotifiesAuthor ==
  (/\ last.op \in {"create_answer", "create_ai_answer"} /\ last.status = 201
   /\ ~last.failed
   /\ questions[last.qid].user_id # last.caller)
  => AddedOfType("answer") =
       <<[user_id |-> questions[last.qid].user_id, from_user_id |-> last.caller,
          type |-> "answer", question_id |-> last.qid, answer_id |-> last.aid,
          read |-> FALSE]>>

\* C4 witness: an answer to another user's question was stored, no insert raised.
AnsweredOthersQuestion ==
  /\ last.op \in {"create_answer", "create_ai_answer"} /\ last.status = 201
  /\ ~last.failed
  /\ questions[last.qid].user_id # last.caller

\* C5: accepting another user's answer adds exactly one 'accepted_answer'
\* notification, to the answer's author from the question's author, with the
\* answer's question_id and answer_id; accepting one's own answer adds none.
AcceptNotifiesAnswerer ==
  (last.op = "accept_answer" /\ last.status = 200) =>
    /\ questions[answers[last.aid].question_id].user_id = last.caller
    /\ Added =
         IF answers[last.aid].user_id # last.caller
         THEN <<[user_id |-> answers[last.aid].user_id, from_user_id |-> last.caller,
                 type |-> "accepted_answer",
                 question_id |-> answers[last.aid].question_id,
                 answer_id |-> last.aid, read |-> FALSE]>>
         ELSE << >>

\* C5 witness: the question's author accepted another user's answer.
AcceptedOthersAnswer ==
  /\ last.op = "accept_answer" /\ last.status = 200
  /\ answers[last.aid].user_id # last.caller

\* C6: with no insert raising, every user other than the poster whose username
\* is @named in the post gets a 'mention' notification for it, and every
\* 'mention' notification added goes to a user @named in the post.
MentionsNotified ==
  (Posted /\ last.status = 201 /\ ~last.failed) =>
    /\ \A u \in UserIds \ {last.caller} :
         Mentioned(u) =>
           \E i \in 1..Len(Added) :
             Added[i] = [user_id |-> u, from_user_id |-> last.caller, type |-> "mention",
                         question_id |-> last.qid, answer_id |-> last.aid, read |-> FALSE]
    /\ \A i \in 1..Len(Added) :
         Added[i].type = "mention" => Mentioned(Added[i].user_id)

\* C6 witness: a post named an unknown user and then a user other than the poster.
UnknownThenKnownMention ==
  /\ Posted /\ last.status = 201 /\ ~last.failed
  /\ \E i, j \in 1..Len(last.text) :
       /\ i < j
       /\ last.text[i] = "@" /\ last.text[j] = "@"
       /\ FindUserByName(SubSeq(last.text, i + 1, j - 1)) = None
       /\ j - 1 > i
       /\ \E u \in UserIds \ {last.caller} :
            users[u].username = SubSeq(last.text, j + 1, Len(last.text))

\* C7: a create_question or create_answer whose content the moderation check
\* flags answers 400 and leaves questions, answers and notifications as they were.
ToxicNeverStored ==
  [][(last'.op \in {"create_question", "create_answer"} /\ last'.flagged)
       => (last'.status = 400 /\ UNCHANGED <<questions, answers, notifications>>)]_vars

\* C7 witness: a flagged answer to an existing question was refused.
FlaggedAnswerRefused ==
  /\ last.op = "create_answer" /\ last.flagged /\ last.status = 400
  /\ last.qid \in DOMAIN questions

\* the accepted answers of question q
AcceptedOf(q) ==
  {a \in DOMAIN answers : ObjectId(answers[a].question_id) = q /\ answers[a].is_accepted}

\* C8: every question has at most one accepted answer; accepted_answer is None
\* exactly when it has none and is otherwise the id of that answer; accepting
\* a second answer un-accepts the first, deleting the accepted one resets it.
AcceptedAnswerConsistent ==
  /\ \A q \in DOMAIN questions :
       /\ Cardinality(AcceptedOf(q)) <= 1
       /\ (questions[q].accepted_answer = None) <=> (AcceptedOf(q) = {})
       /\ questions[q].accepted_answer # None =>
            AcceptedOf(q) = {ObjectId(questions[q].accepted_answer)}
  /\ (last.op = "accept_answer" /\ last.status \in {200, 500}) =>
       /\ questions[last.qid].accepted_answer = last.aid
       /\ (ObjectId(last.prev) \in DOMAIN answers \ {ObjectId(last.aid)}) =>
            ~answers[ObjectId(last.prev)].is_accepted
  /\ (last.op = "delete_answer" /\ last.status = 204
        /\ ObjectId(last.prev) = ObjectId(last.aid)
        /\ last.qid \in DOMAIN questions) =>
       questions[last.qid].accepted_answer = None

\* C9: accept_answer by anyone but the question's author answers 403 and
\* changes no is_accepted flag, no accepted_answer and no notification.
OnlyAuthorAccepts ==
  [][(/\ last'.op = "accept_answer"
      /\ last'.aid \in DOMAIN answers
      /\ answers[last'.aid].question_id \in DOMAIN questions
      /\ questions[answers[last'.aid].question_id].user_id # last'.caller)
       => (last'.status = 403 /\ UNCHANGED <<questions, answers, notifications>>)]_vars

\* C9 witness: an admin who is not the question's author was refused.
AdminAcceptRefused ==
  /\ last.op = "accept_answer" /\ last.status = 403
  /\ users[last.caller].role = "admin"

\* C10: delete_question and delete_answer by a user who is neither the author
\* nor an admin answer 403 and leave questions and answers as they were.
OnlyAuthorOrAdminDeletes ==
  [][(\/ /\ last'.op = "delete_question"
         /\ last'.qid \in DOMAIN questions
         /\ questions[last'.qid].user_id # last'.caller
         /\ users[last'.caller].role # "admin"
      \/ /\ last'.op = "delete_answer"
         /\ last'.aid \in DOMAIN answers
         /\ answers[last'.aid].user_id # last'.caller
         /\ users[last'.caller].role # "admin")
       => (last'.status = 403 /\ UNCHANGED <<questions, answers>>)]_vars

\* C10 witness: a user deleting another user's answer was refused.
DeleteOthersAnswerRefused ==
  /\ last.op = "delete_answer" /\ last.status = 403
  /\ last.aid \in DOMAIN answers

(* C11: a delete_question that succeeds leaves neither the question nor any *)
(* answer whose question_id names it, and leaves every answer of the other  *)
(* questions as it was.                                                     *)
DeleteQuestionCascades ==
  [][(last'.op = "delete_question" /\ last'.status = 204) =>
       /\ ObjectId(last'.qid) \notin DOMAIN questions'
       /\ \A a \in DOMAIN answers' :
            ObjectId(answers'[a].question_id) # ObjectId(last'.qid)
       /\ \A a \in DOMAIN answers :
            ObjectId(answers[a].question_id) # ObjectId(last'.qid) =>
              a \in DOMAIN answers' /\ answers'[a] = answers[a]]_vars

(* C12: vote_answer by the answer's author answers 400 and leaves the       *)
(* answers as they were, and an answer's votes change only in a vote_answer *)
(* request for that answer by a user other than its author.                 *)
OwnVoteRefused ==
  [][/\ (/\ last'.op = "vote_answer"
          /\ last'.aid \in DOMAIN answers
          /\ answers[last'.aid].user_id = last'.caller) =>
            (last'.status = 400 /\ answers' = answers)
     /\ \A a \in DOMAIN answers \cap DOMAIN answers' :
          answers'[a].votes # answers[a].votes =>
            /\ last'.op = "vote_answer"
            /\ last'.aid = a
            /\ last'.caller # answers[a].user_id]_vars

\* the author's vote on an answer that others have voted on was refused
AuthorVoteOnVotedAnswer ==
  /\ last.op = "vote_answer"
  /\ last.status = 400
  /\ last.aid \in DOMAIN answers
  /\ answers[last.aid].user_id = last.caller
  /\ answers[last.aid].votes # 0

(* C14: when a user's upvote or downvote of an answer is followed by the    *)
(* same user's "remove" for that answer, votes is back to the value it had  *)
(* before that user's vote.                                                 *)
RemoveRestoresVotes ==
  [][(/\ last.op = "vote_answer" /\ last.status = 200
      /\ last.action \in {"upvote", "downvote"}
      /\ last'.op = "vote_answer" /\ last'.status = 200
      /\ last'.action = "remove"
      /\ last'.caller = last.caller
      /\ last'.aid = last.aid) =>
        answers'[last.aid].votes = last.prev]_vars

\* the completed vote_answer requests with the action on answer a
Votes(a, action) ==
  {i \in Slots : /\ inflight[i].op = "vote_answer" /\ inflight[i].pc = "done"
                 /\ inflight[i].status = 200 /\ inflight[i].aid = a
                 /\ inflight[i].action = action}

(* C13: an answer starts with votes 0, and whenever no vote request is in   *)
(* flight its votes is the number of completed "upvote" requests minus the  *)
(* number of completed "downvote" requests, however their steps interleaved.*)
VotesAreNet ==
  Quiescent =>
    \A a \in DOMAIN answers :
       answers[a].votes = Cardinality(Votes(a, "upvote")) - Cardinality(Votes(a, "downvote"))

\* two upvotes whose steps interleaved: each read the count after both $inc
InterleavedUpvotesCounted ==
  /\ Quiescent
  /\ \E a \in DOMAIN answers :
       /\ Cardinality(Votes(a, "upvote")) = 2
       /\ \A i \in Votes(a, "upvote") : inflight[i].count = 2

\* a stored user has the username and the password verifies against its hash
Authenticates(u, username, password) ==
  /\ users[u].username = username
  /\ verify_password(password, users[u].password_hash)

(* C15: the stored users never share a username or an email; a register    *)
(* whose username or email is stored answers 400 and inserts nothing, and a *)
(* register that succeeds inserts exactly one user, with role "user".       *)
RegisterKeepsUsersUnique ==
  [][/\ \A u, v \in DOMAIN users' :
          u # v => /\ users'[u].username # users'[v].username
                   /\ users'[u].email # users'[v].email
     /\ last'.op = "register" =>
          /\ (\E u \in UserIds : \/ users[u].username = last'.username
                                   \/ users[u].email = last'.email) =>
                (last'.status = 400 /\ users' = users)
          /\ last'.status # 400 =>
                /\ last'.status = 201
                /\ Len(users') = Len(users) + 1
                /\ SubSeq(users', 1, Len(users)) = users
                /\ users'[Len(users')].username = last'.username
                /\ users'[Len(users')].email = last'.email
                /\ users'[Len(users')].role = "user"]_vars

\* a register with a free username and a stored email was refused
TakenEmailRefused ==
  /\ last.op = "register"
  /\ last.status = 400
  /\ \A u \in UserIds : users[u].username # last.username
  /\ \E u \in UserIds : users[u].email = last.email
  /\ Len(users) > Len(InitUsers)

(* C16: login returns a token only for a stored username whose password     *)
(* verifies and whose account is active; every other login answers 401      *)
(* without a token; no login changes a collection; an unknown username and  *)
(* a wrong password for a known one get the same response.                  *)
LoginOnlyWithCredentials ==
  [][last'.op = "login" =>
       LET known == \E u \in UserIds : users[u].username = last'.username
           verified == \E u \in UserIds : Authenticates(u, last'.username, last'.password)
           granted == \E u \in UserIds :
                         Authenticates(u, last'.username, last'.password) /\ users[u].is_active
       IN  /\ UNCHANGED <<users, questions, answers, notifications>>
           /\ last'.token # <<>> => granted
           /\ ~granted => (last'.status = 401 /\ last'.token = <<>>)
           /\ (~known \/ ~verified) =>
                <<last'.status, last'.detail, last'.token>> =
                  <<401, "Incorrect username or password", <<>> >>]_vars

\* the right password of a deactivated account was refused
DeactivatedLoginRefused ==
  /\ last.op = "login"
  /\ last.status = 401
  /\ \E u \in UserIds :
       Authenticates(u, last.username, last.password) /\ ~users[u].is_active

(* C17: a create_ai_answer whose generator failed or was unavailable ends   *)
(* in an error and leaves the answers, the question's answer list and the   *)
(* notifications as they were.                                              *)
AiFailureStoresNothing ==
  [][(last'.op = "create_ai_answer" /\ last'.gen \in {"error", "unavailable"}) =>
       /\ last'.status >= 400
       /\ UNCHANGED <<questions, answers, notifications>>]_vars

\* the accept_answer requests the question's author has completed
Accepted(q) ==
  {i \in Slots : /\ inflight[i].op = "accept_answer" /\ inflight[i].pc = "done"
                 /\ inflight[i].status = 200 /\ inflight[i].qid = q}

(* C18: once two concurrent accept_answer requests of the question's author *)
(* for two different answers have both completed, at most one answer of the *)
(* question is accepted, and it is the one question.accepted_answer names.  *)
ConcurrentAcceptsAgree ==
  \A q \in DOMAIN questions :
     (/\ Quiescent
      /\ \E i, j \in Accepted(q) : inflight[i].aid # inflight[j].aid) =>
        \A a \in DOMAIN answers :
           (ObjectId(answers[a].question_id) = q /\ answers[a].is_accepted) =>
              ObjectId(questions[q].accepted_answer) = a

(* C19: once a create_answer or create_ai_answer and a concurrent           *)
(* delete_question on the same question have both completed, no answer      *)
(* remains whose question_id names a question that no longer exists.        *)
NoOrphanAnswers ==
  Quiescent =>
    \A a \in DOMAIN answers : ObjectId(answers[a].question_id) \in DOMAIN questions

(* C20: however the look-up and insert steps of concurrent register         *)
(* requests interleave, no two stored users have the same username or the   *)
(* same email.                                                              *)
ConcurrentRegistersUnique ==
  \A u, v \in UserIds :
     u # v => /\ users[u].username # users[v].username
              /\ users[u].email # users[v].email

(***************************************************************************)
(* C21: the tags create_question stores are the user's tags combined with  *)
(* the AI-suggested tags: at most 10 entries, no entry twice, and every    *)
(* entry a tag the user sent or a tag the AI suggested.                    *)
(***************************************************************************)
StoredTagsCombined ==
  (last.op = "create_question" /\ last.qid \in DOMAIN questions) =>
     LET stored == questions[last.qid].tags
     IN  /\ Len(stored) <= 10
         /\ \A i, j \in 1..Len(stored) : i # j => stored[i] # stored[j]
         /\ \A i \in 1..Len(stored) :
              \/ \E j \in 1..Len(last.tags) : stored[i] = last.tags[j]
              \/ \E j \in 1..Len(last.ai_tags) : stored[i] = last.ai_tags[j]

\* a question stored with 10 tags out of more than 10 distinct ones, the user
\* having sent one tag twice and one the AI suggested as well
TagsCappedAndMerged ==
  /\ last.op = "create_question"
  /\ last.qid \in DOMAIN questions
  /\ Len(questions[last.qid].tags) = 10
  /\ Cardinality(Entries(last.tags) \cup Entries(last.ai_tags)) > 10
  /\ \E i, j \in 1..Len(last.tags) : i # j /\ last.tags[i] = last.tags[j]
  /\ Entries(last.tags) \cap Entries(last.ai_tags) # {}

====
